---- MODULE Spec2Model ----
(***************************************************************************)
(* A state-machine model of mg_solve (include/multigrid/mg_solver.h), the  *)
(* multigrid-preconditioned conjugate-gradient solve of hpbox.             *)
(*                                                                         *)
(* One call of mg_solve is followed statement by statement: the smoother   *)
(* type check, the per-level smoother data, the optional eigenvalue        *)
(* estimation loop, the coarse-solver dispatch, the construction of the    *)
(* Multigrid object with its timer callbacks, the outer CG solve with one  *)
(* V-cycle per preconditioner application, and the rank-0 table dump.      *)
(* Around it runs the refinement loop of Poisson::run: grid and system     *)
(* setup, the reinit of the operator, the solve, the rank-0 log write.     *)
(*                                                                         *)
(* Numerics are abstracted: a residual is either below the tolerance or    *)
(* not, an eigenvalue estimate is one of a few values, a stage takes zero  *)
(* or one tick of wall-clock time.  The deal.II classes the function calls *)
(* behave as deal.II documents them:                                       *)
(*   - SolverControl::check(step, res) stores step and res, answers        *)
(*     success when res <= tol, failure when step >= maxsteps, and iterate *)
(*     otherwise;                                                          *)
(*   - SolverCG::solve returns silently when the check of step 0 does not  *)
(*     answer iterate, and otherwise raises SolverControl::NoConvergence   *)
(*     when its loop ends with failure;                                    *)
(*   - Multigrid(matrix, coarse, transfer, pre, post) without further      *)
(*     arguments cycles between its default minlevel 0 and the matrix's    *)
(*     maxlevel, and level_v_step brackets every stage by signal(true,     *)
(*     level) ... signal(false, level);                                    *)
(*   - MGLevelObject and std::vector do not check indices in release       *)
(*     builds: an access outside the stored range is undefined behaviour,  *)
(*     modelled as a crash or as a stray access that leaves the modelled   *)
(*     objects alone.                                                      *)
(***************************************************************************)
EXTENDS Integers, Sequences, FiniteSets, TLC

(***************************************************************************)
(* Bounds of the model.                                                    *)
(***************************************************************************)
MaxLevel == 1      \* hierarchies min_level..max_level with max_level <= MaxLevel
MaxSteps == 2      \* the outer SolverControl's maxsteps ranges over 0..MaxSteps
MaxClock == 1      \* the wall clock advances at most to MaxClock

(***************************************************************************)
(* Program constants.                                                      *)
(***************************************************************************)
NStages == 7       \* all_mg_timers[i].resize(7): seven stage timers per level
mg_minlevel == 0   \* Multigrid's minlevel: line 209 passes none, default 0

Stages == 0 .. (NStages - 1)
\* indices given to create_mg_timer_function, lines 237-243
PRE == 0
RESIDUAL == 1
RESTRICTION == 2
COARSE == 3
PROLONGATION == 4
EDGE_PROLONGATION == 5
POST == 6

SmootherTypes == {"chebyshev", "jacobi"}
CoarseTypes   == {"cg", "cg_with_chebyshev", "cg_with_amg", "gmres"}

(***************************************************************************)
(* Floating point values that may be the signaling-NaN sentinel.           *)
(***************************************************************************)
NaN    == [nan |-> TRUE, v |-> 0]
Num(x) == [nan |-> FALSE, v |-> x]
\* operator< of double: false whenever an operand is NaN
Less(a, b) == ~a.nan /\ ~b.nan /\ a.v < b.v

\* outcomes of chebyshev.estimate_eigenvalues(vec): (min, max) estimates of
\* a positive definite operator, and the non-positive bound of one that is
\* not
EstimateOutcomes == { [min |-> 10, max |-> 20], [min |-> 0, max |-> 0] }

\* a variant without the safety margin
Inflate_none(ev) == ev

\* evs.max_eigenvalue_estimate * 1.1  (line 118)
Inflate(ev) == (ev * 11) \div 10

VARIABLES
  cfg,              \* mg_data: smoother.type, coarse_solver.type, flags
  with_trilinos,    \* DEAL_II_WITH_TRILINOS defined in this build
  rank,             \* Utilities::MPI::this_mpi_process(...)
  min_level,        \* mg_matrices.min_level()
  max_level,        \* mg_matrices.max_level()
  maxsteps,         \* solver_control.max_steps()
  pc,               \* position in mg_solve
  exit,             \* how the call ended
  smoother_data,    \* level -> [eig_cg_n_iterations, max_eigenvalue]
  min_eigenvalues,  \* index -> value, size max_level + 1
  max_eigenvalues,  \* index -> value, size max_level + 1
  level,            \* cursor of the estimation loop
  max_ev_logged,    \* value written by getTable().add_value("max_ev", max)
  touched,          \* uses of level operators: set of [op, level]
  mg_coarse,        \* the coarse solver object built, "null" before
  all_mg_timers,    \* index -> stage -> [first, second]
  connected,        \* the seven stage callbacks are connected to mg
  now,              \* std::chrono::system_clock::now()
  solver_control,   \* [last_step, last_check] of the caller's SolverControl
  it,               \* SolverCG's iteration counter
  applications,     \* PreconditionMG::vmult calls started
  vcycles,          \* V-cycles completed
  vc,               \* position inside the running V-cycle
  bottom,           \* levels at which the coarse solver was invoked
  open,             \* callback starts not yet stopped: [stage, level, at]
  measured,         \* level -> stage -> time between callback start and stop
  ub,               \* an out-of-range access has happened in this call
  table,            \* rows written to filename_mg_level, <<>> if none
  operator_type,    \* prm.operator_type of Poisson
  system_operator,  \* the discretization the Poisson operator is built for
  logstream,        \* rows written to filename_log in this cycle, <<>> if none
  stage_log         \* stages the running V-cycle has completed: [stage, level]

vars == << cfg, with_trilinos, rank, min_level, max_level, maxsteps, pc, exit,
           smoother_data, min_eigenvalues, max_eigenvalues, level,
           max_ev_logged, touched, mg_coarse, all_mg_timers, connected, now,
           solver_control, it, applications, vcycles, vc, bottom, open,
           measured, ub, table, operator_type, system_operator, logstream,
           stage_log >>

\* the state of Poisson that mg_solve neither sees nor changes
caller == << operator_type, system_operator, logstream >>

\* what a call of mg_solve is given and leaves as it is
inputs == << cfg, with_trilinos, rank, min_level, max_level, maxsteps, caller >>

Levels == min_level .. max_level

\* values of mg_data.smoother.eig_cg_n_iterations, a positive iteration count
EigCgNIterations == {10}

Configs == [ smoother_type        : SmootherTypes,
             coarse_type          : CoarseTypes,
             eig_cg_n_iterations  : EigCgNIterations,
             estimate_eigenvalues : BOOLEAN,
             log_levels           : BOOLEAN ]

\* PreconditionChebyshev::AdditionalData() leaves max_eigenvalue at its default
DefaultMaxEigenvalue == 1

NoVc == [lvl |-> 0, stage |-> PRE, running |-> FALSE]

\* the locals of mg_solve before their declarations are reached
Locals ==
  /\ exit = "none"
  /\ smoother_data = << >>
  /\ min_eigenvalues = << >>
  /\ max_eigenvalues = << >>
  /\ level = 0
  /\ max_ev_logged = NaN
  /\ touched = {}
  /\ mg_coarse = "null"
  /\ all_mg_timers = << >>
  /\ connected = FALSE
  /\ solver_control = [last_step |-> 0, last_check |-> "none"]
  /\ it = 0
  /\ applications = 0
  /\ vcycles = 0
  /\ vc = NoVc
  /\ bottom = {}
  /\ open = {}
  /\ measured = << >>
  /\ ub = FALSE
  /\ table = << >>
  /\ stage_log = << >>

\* values of prm.operator_type: the default, and a name that is not
\* implemented ("MatrixBased" takes the same path through run as the default)
OperatorTypes == {"MatrixFree", "Unknown"}

\* what is fixed for the whole run: the parameters, the build, the rank;
\* hierarchy and cap are made for each solve and do not exist before
Arguments ==
  /\ cfg \in Configs
  /\ with_trilinos \in BOOLEAN
  /\ rank \in {0, 1}
  /\ operator_type \in OperatorTypes
  /\ max_level = 0
  /\ min_level = 0
  /\ maxsteps = 0

\* Poisson is constructed and run() is entered: the operator object exists
\* but was never reinit-ed, nothing was written
Init ==
  /\ Arguments
  /\ Locals
  /\ pc = "run"
  /\ system_operator = "constructed"
  /\ logstream = << >>
  /\ now = 0

\* mg_solve has executed its last statement: a return, a throw, a crash
Terminal == {"returned", "thrown", "crashed"}

(***************************************************************************)
(* Line 73: AssertThrow(mg_data.smoother.type == "chebyshev", ...).        *)
(***************************************************************************)
\* a variant that accepts every smoother type
SmootherSupported_any(type) == TRUE

SmootherSupported(type) == type = "chebyshev"

CheckSmoother ==
  /\ pc = "check_smoother"
  /\ IF SmootherSupported(cfg.smoother_type)
       THEN pc' = "init_smoothers" /\ exit' = exit
       ELSE pc' = "thrown" /\ exit' = "config_error"
  /\ UNCHANGED << stage_log, inputs, smoother_data, min_eigenvalues,
                  max_eigenvalues, level, max_ev_logged, touched, mg_coarse,
                  all_mg_timers, connected, now, solver_control, it,
                  applications, vcycles, vc, bottom, open, measured, ub, table >>

(***************************************************************************)
(* Lines 75-102: mg_matrix wraps the level operators, smoother_data is     *)
(* filled for every level, the estimate vectors get max_level + 1 sentinel *)
(* entries, and the estimation loop is entered when it is enabled.         *)
(***************************************************************************)
Uses(op, lvls) == { [op |-> op, level |-> l] : l \in lvls }

\* a variant that fills the estimate vectors with zeros
Sentinels_zero(n) == [ i \in 0 .. (n - 1) |-> Num(0) ]

\* lines 100-101: std::vector<double>(n, numbers::signaling_nan<double>())
Sentinels(n) == [ i \in 0 .. (n - 1) |-> NaN ]

\* a variant in which the estimation loop starts at min_level
FirstEstimated_min(minl) == minl

\* line 104: for (unsigned int level = min_level + 1; ...)
FirstEstimated(minl) == minl + 1

InitSmoothers ==
  /\ pc = "init_smoothers"
  /\ touched' = touched \cup Uses("mg_matrix", Levels)
  /\ smoother_data' =
       [ l \in Levels |->
           [ eig_cg_n_iterations |-> cfg.eig_cg_n_iterations,
             max_eigenvalue      |-> Num(DefaultMaxEigenvalue) ] ]
  /\ min_eigenvalues' = Sentinels(max_level + 1)
  /\ max_eigenvalues' = Sentinels(max_level + 1)
  /\ IF cfg.estimate_eigenvalues
       THEN pc' = "estimate" /\ level' = FirstEstimated(min_level)
       ELSE pc' = "smoother_initialize" /\ level' = level
  /\ UNCHANGED << stage_log, inputs, exit, max_ev_logged, mg_coarse,
                  all_mg_timers, connected, now, solver_control, it,
                  applications, vcycles, vc, bottom, open, measured, ub, table >>

(***************************************************************************)
(* Lines 104-119: one pass of the estimation loop.                         *)
(***************************************************************************)
EstimatedData(evs) ==
  [ eig_cg_n_iterations |-> 0, max_eigenvalue |-> Num(Inflate(evs.max)) ]

EstimateLevel ==
  /\ pc = "estimate"
  /\ level <= max_level
  /\ \E evs \in EstimateOutcomes :
       /\ min_eigenvalues' = [min_eigenvalues EXCEPT ![level] = Num(evs.min)]
       /\ max_eigenvalues' = [max_eigenvalues EXCEPT ![level] = Num(evs.max)]
       /\ smoother_data' = [smoother_data EXCEPT ![level] = EstimatedData(evs)]
  /\ touched' = touched \cup Uses("smoother_initialize", {level})
                        \cup Uses("initialize_dof_vector", {level})
                        \cup Uses("estimate_eigenvalues", {level})
  /\ level' = level + 1
  /\ UNCHANGED << stage_log, inputs, pc, exit, max_ev_logged, mg_coarse,
                  all_mg_timers, connected, now, solver_control, it,
                  applications, vcycles, vc, bottom, open, measured, ub, table >>

(***************************************************************************)
(* Lines 121-124: std::max_element(++begin, end) over max_eigenvalues.     *)
(* With max_level = 0 the range is empty, max_element returns end and the  *)
(* dereference reads the double behind the last element: an indeterminate  *)
(* value.                                                                  *)
(***************************************************************************)
RECURSIVE MaxElementFrom(_, _, _, _)
\* std::max_element: keeps the first largest, compares with operator<
MaxElementFrom(f, largest, i, last) ==
  IF i > last THEN largest
  ELSE MaxElementFrom(f, IF Less(f[largest], f[i]) THEN i ELSE largest,
                      i + 1, last)

MaxElement(f, first, last) == MaxElementFrom(f, first, first + 1, last)

IndeterminateValues == { NaN, Num(99) }

LogMaxEV ==
  /\ pc = "estimate"
  /\ level > max_level
  /\ IF max_level >= 1
       THEN /\ max_ev_logged' =
                 max_eigenvalues[MaxElement(max_eigenvalues, 1, max_level)]
            /\ ub' = ub
       ELSE /\ max_ev_logged' \in IndeterminateValues
            /\ ub' = TRUE
  /\ pc' = "smoother_initialize"
  /\ UNCHANGED << stage_log, inputs, exit, smoother_data, min_eigenvalues,
                  max_eigenvalues, level, touched, mg_coarse, all_mg_timers,
                  connected, now, solver_control, it, applications, vcycles,
                  vc, bottom, open, measured, table >>

(***************************************************************************)
(* Lines 128-129: mg_smoother.initialize(mg_matrices, smoother_data)       *)
(* initializes one smoother per level of the hierarchy.                    *)
(***************************************************************************)
SmootherInitialize ==
  /\ pc = "smoother_initialize"
  /\ touched' = touched \cup Uses("smoother_initialize", Levels)
  /\ pc' = "coarse_dispatch"
  /\ UNCHANGED << stage_log, inputs, exit, smoother_data, min_eigenvalues,
                  max_eigenvalues, level, max_ev_logged, mg_coarse,
                  all_mg_timers, connected, now, solver_control, it,
                  applications, vcycles, vc, bottom, open, measured, ub, table >>

(***************************************************************************)
(* Lines 131-206: the coarse-grid solver is chosen by name.  CoarseSolver  *)
(* is the object built ("null" when the branch throws) and CoarseUses the  *)
(* uses of the min_level operator the branch makes.                        *)
(***************************************************************************)
\* a variant in which the AMG branch without Trilinos falls back to plain CG
CoarseSolver_fallback(type, trilinos) ==
  CASE type = "cg"                -> "identity"
    [] type = "cg_with_chebyshev" -> "chebyshev"
    [] type = "cg_with_amg"       -> IF trilinos THEN "amg" ELSE "identity"
    [] OTHER                      -> "null"

CoarseSolver(type, trilinos) ==
  CASE type = "cg"                -> "identity"
    [] type = "cg_with_chebyshev" -> "chebyshev"
    [] type = "cg_with_amg"       -> IF trilinos THEN "amg" ELSE "null"
    [] OTHER                      -> "null"

CoarseUses(type, trilinos) ==
  CASE type = "cg"                -> Uses("coarse_matrix", {min_level})
    [] type = "cg_with_chebyshev" ->
         Uses("compute_inverse_diagonal", {min_level})
           \cup Uses("smoother_initialize", {min_level})
           \cup Uses("coarse_matrix", {min_level})
    [] type = "cg_with_amg"       ->
         IF trilinos
           THEN Uses("get_system_matrix", {min_level})
                  \cup Uses("coarse_matrix", {min_level})
           ELSE {}
    [] OTHER                      -> {}

CoarseDispatch ==
  /\ pc = "coarse_dispatch"
  /\ mg_coarse' = CoarseSolver(cfg.coarse_type, with_trilinos)
  /\ touched' = touched \cup CoarseUses(cfg.coarse_type, with_trilinos)
  /\ IF mg_coarse' = "null"
       THEN pc' = "thrown" /\ exit' = "config_error"
       ELSE pc' = "create_mg" /\ exit' = exit
  /\ UNCHANGED << stage_log, inputs, smoother_data, min_eigenvalues,
                  max_eigenvalues, level, max_ev_logged, all_mg_timers,
                  connected, now, solver_control, it, applications, vcycles,
                  vc, bottom, open, measured, ub, table >>

(***************************************************************************)
(* Lines 208-248: the Multigrid object, max_level - min_level + 1 timer    *)
(* records of seven value-initialized (duration, time point) pairs, the    *)
(* seven callbacks when log_levels is set, and the preconditioner.         *)
(***************************************************************************)
NewTimers(n) ==
  [ i \in 0 .. (n - 1) |-> [ s \in Stages |-> [first |-> 0, second |-> 0] ] ]

CreateMG ==
  /\ pc = "create_mg"
  /\ all_mg_timers' = NewTimers(max_level - min_level + 1)
  /\ connected' = cfg.log_levels
  /\ measured' = [ l \in 0 .. max_level |-> [ s \in Stages |-> 0 ] ]
  /\ pc' = "solve_start"
  /\ UNCHANGED << stage_log, inputs, exit, smoother_data, min_eigenvalues,
                  max_eigenvalues, level, max_ev_logged, touched, mg_coarse,
                  now, solver_control, it, applications, vcycles, vc, bottom,
                  open, ub, table >>

(***************************************************************************)
(* Line 251: SolverCG<VectorType>(solver_control).solve(...).              *)
(* Check is SolverControl::check, small says whether the residual is       *)
(* below the tolerance.                                                    *)
(***************************************************************************)
\* a variant that compares the cap with > instead of >=
Check_late(step, small, cap) ==
  IF small THEN "success"
  ELSE IF step > cap THEN "failure"
  ELSE "iterate"

Check(step, small, cap) ==
  IF small THEN "success"
  ELSE IF step >= cap THEN "failure"
  ELSE "iterate"

\* the residual of the start vector is checked as step 0; anything but
\* iterate makes solve return at once
SolveStart ==
  /\ pc = "solve_start"
  /\ \E small \in BOOLEAN :
       LET st == Check(0, small, maxsteps) IN
         /\ solver_control' = [last_step |-> 0, last_check |-> st]
         /\ pc' = IF st = "iterate" THEN "cg_iterate" ELSE "dump"
  /\ UNCHANGED << stage_log, inputs, exit, smoother_data, min_eigenvalues,
                  max_eigenvalues, level, max_ev_logged, touched, mg_coarse,
                  all_mg_timers, connected, now, it, applications, vcycles,
                  vc, bottom, open, measured, ub, table >>

\* the first stage level_v_step runs at a level
FirstStage(l) == IF l = mg_minlevel THEN COARSE ELSE PRE

\* it++, then the iteration applies the preconditioner: PreconditionMG::vmult
\* calls Multigrid::cycle, which starts level_v_step(maxlevel)
CGIterate ==
  /\ pc = "cg_iterate"
  /\ it' = it + 1
  /\ applications' = applications + 1
  /\ vc' = [lvl |-> max_level, stage |-> FirstStage(max_level), running |-> FALSE]
  /\ stage_log' = << >>
  /\ pc' = "vcycle"
  /\ UNCHANGED << inputs, exit, smoother_data, min_eigenvalues,
                  max_eigenvalues, level, max_ev_logged, touched, mg_coarse,
                  all_mg_timers, connected, now, solver_control, vcycles,
                  bottom, open, measured, ub, table >>

\* the iteration's residual is checked as step it; failure ends the loop and
\* solve raises SolverControl::NoConvergence
CGCheck ==
  /\ pc = "cg_check"
  /\ \E small \in BOOLEAN :
       LET st == Check(it, small, maxsteps) IN
         /\ solver_control' = [last_step |-> it, last_check |-> st]
         /\ pc' = CASE st = "iterate" -> "cg_iterate"
                     [] st = "success" -> "dump"
                     [] OTHER          -> "thrown"
         /\ exit' = IF st = "failure" THEN "no_convergence" ELSE exit
  /\ UNCHANGED << stage_log, inputs, smoother_data, min_eigenvalues,
                  max_eigenvalues, level, max_ev_logged, touched, mg_coarse,
                  all_mg_timers, connected, now, it, applications, vcycles,
                  vc, bottom, open, measured, ub, table >>

(***************************************************************************)
(* Lines 222-235: the callback create_mg_timer_function(i, label) returns. *)
(* flag = true stores the start time in all_mg_timers[level][i].second,    *)
(* flag = false adds the time since then to all_mg_timers[level][i].first. *)
(* The record is indexed by the level the signal carries.                  *)
(***************************************************************************)
TimerIndex(lvl) == lvl

TimerInRange(lvl) == TimerIndex(lvl) \in DOMAIN all_mg_timers

TimerStart(timers, lvl, i, clock) ==
  [timers EXCEPT ![TimerIndex(lvl)][i].second = clock]

\* a variant that assigns the elapsed time (=) instead of adding it (+=)
Accumulate_assign(first, elapsed) == elapsed

Accumulate(first, elapsed) == first + elapsed

TimerStop(timers, lvl, i, clock) ==
  [timers EXCEPT ![TimerIndex(lvl)][i].first =
     Accumulate(@, clock - timers[TimerIndex(lvl)][i].second)]

(***************************************************************************)
(* Multigrid::level_v_step as line 209 sets it up: the level objects a     *)
(* stage reads exist for min_level..max_level (the transfer between l and  *)
(* l - 1 for min_level < l <= max_level); edge matrices are not set.       *)
(***************************************************************************)
WorkOutOfRange(stage, lvl) ==
  CASE stage \in {PRE, RESIDUAL, POST, COARSE}   -> lvl \notin Levels
    [] stage \in {RESTRICTION, PROLONGATION}    ->
         lvl \notin Levels \/ (lvl - 1) \notin Levels
    [] OTHER                                    -> FALSE

\* the V-cycle is over after the last stage at the finest level
CycleDone(v) == v.stage \in {COARSE, POST} /\ v.lvl = max_level

\* a variant of the stage order that goes from pre-smoothing straight to the
\* restriction
NextVc_no_residual(v) ==
  CASE v.stage = PRE               -> [v EXCEPT !.stage = RESTRICTION, !.running = FALSE]
    [] v.stage = RESIDUAL          -> [v EXCEPT !.stage = RESTRICTION, !.running = FALSE]
    [] v.stage = RESTRICTION       ->
         [lvl |-> v.lvl - 1, stage |-> FirstStage(v.lvl - 1), running |-> FALSE]
    [] v.stage = PROLONGATION      -> [v EXCEPT !.stage = EDGE_PROLONGATION, !.running = FALSE]
    [] v.stage = EDGE_PROLONGATION -> [v EXCEPT !.stage = POST, !.running = FALSE]
    [] OTHER                       ->
         [lvl |-> v.lvl + 1, stage |-> PROLONGATION, running |-> FALSE]

\* the stage level_v_step runs after stage v.stage at level v.lvl
NextVc(v) ==
  CASE v.stage = PRE               -> [v EXCEPT !.stage = RESIDUAL, !.running = FALSE]
    [] v.stage = RESIDUAL          -> [v EXCEPT !.stage = RESTRICTION, !.running = FALSE]
    [] v.stage = RESTRICTION       ->
         [lvl |-> v.lvl - 1, stage |-> FirstStage(v.lvl - 1), running |-> FALSE]
    [] v.stage = PROLONGATION      -> [v EXCEPT !.stage = EDGE_PROLONGATION, !.running = FALSE]
    [] v.stage = EDGE_PROLONGATION -> [v EXCEPT !.stage = POST, !.running = FALSE]
    [] OTHER                       ->
         [lvl |-> v.lvl + 1, stage |-> PROLONGATION, running |-> FALSE]

OpenAt(stage, lvl) == { o \in open : o.stage = stage /\ o.level = lvl }

\* signals.<stage>(true, level): the connected callback starts its timer
StageStart ==
  /\ pc = "vcycle"
  /\ ~vc.running
  /\ all_mg_timers' =
       IF connected /\ TimerInRange(vc.lvl)
         THEN TimerStart(all_mg_timers, vc.lvl, vc.stage, now)
         ELSE all_mg_timers
  /\ open' = IF connected
               THEN open \cup {[stage |-> vc.stage, level |-> vc.lvl, at |-> now]}
               ELSE open
  /\ ub' = (ub \/ (connected /\ ~TimerInRange(vc.lvl)))
  /\ vc' = [vc EXCEPT !.running = TRUE]
  /\ UNCHANGED << stage_log, inputs, pc, exit, smoother_data, min_eigenvalues,
                  max_eigenvalues, level, max_ev_logged, touched, mg_coarse,
                  connected, now, solver_control, it, applications, vcycles,
                  bottom, measured, table >>

\* the stage's work, then signals.<stage>(false, level): the connected
\* callback adds the elapsed time; level_v_step goes on to the next stage
StageEnd ==
  /\ pc = "vcycle"
  /\ vc.running
  /\ \E dt \in 0 .. 1 :
       /\ now + dt <= MaxClock
       /\ now' = now + dt
       /\ all_mg_timers' =
            IF connected /\ TimerInRange(vc.lvl)
              THEN TimerStop(all_mg_timers, vc.lvl, vc.stage, now + dt)
              ELSE all_mg_timers
       /\ measured' =
            IF connected
              THEN [measured EXCEPT ![vc.lvl][vc.stage] =
                      @ + (now + dt) - (CHOOSE o \in OpenAt(vc.stage, vc.lvl) : TRUE).at]
              ELSE measured
  /\ open' = open \ OpenAt(vc.stage, vc.lvl)
  /\ bottom' = IF vc.stage = COARSE THEN bottom \cup {vc.lvl} ELSE bottom
  /\ stage_log' = Append(stage_log, [stage |-> vc.stage, level |-> vc.lvl])
  /\ ub' = (ub \/ WorkOutOfRange(vc.stage, vc.lvl)
               \/ (connected /\ ~TimerInRange(vc.lvl)))
  /\ IF CycleDone(vc)
       THEN vc' = NoVc /\ vcycles' = vcycles + 1 /\ pc' = "cg_check"
       ELSE vc' = NextVc(vc) /\ vcycles' = vcycles /\ pc' = pc
  /\ UNCHANGED << inputs, exit, smoother_data, min_eigenvalues,
                  max_eigenvalues, level, max_ev_logged, touched, mg_coarse,
                  connected, solver_control, it, applications, table >>

\* an out-of-range access of a callback or of a stage ends the process
StageCrash ==
  /\ pc = "vcycle"
  /\ \/ connected /\ ~TimerInRange(vc.lvl)
     \/ vc.running /\ WorkOutOfRange(vc.stage, vc.lvl)
  /\ ub' = TRUE
  /\ pc' = "crashed"
  /\ exit' = "crash"
  /\ UNCHANGED << stage_log, inputs, smoother_data, min_eigenvalues,
                  max_eigenvalues, level, max_ev_logged, touched, mg_coarse,
                  all_mg_timers, connected, now, solver_control, it,
                  applications, vcycles, vc, bottom, open, measured, table >>

\* the coarse CG exceeds coarse_solver.maxiter: SolverCG raises
\* SolverControl::NoConvergence inside (*coarse)(level, ...), and nothing
\* between there and the caller of mg_solve catches it
CoarseSolveThrow ==
  /\ pc = "vcycle"
  /\ vc.running
  /\ vc.stage = COARSE
  /\ pc' = "thrown"
  /\ exit' = "coarse_no_convergence"
  /\ UNCHANGED << stage_log, inputs, smoother_data, min_eigenvalues,
                  max_eigenvalues, level, max_ev_logged, touched, mg_coarse,
                  all_mg_timers, connected, now, solver_control, it,
                  applications, vcycles, vc, bottom, open, measured, ub, table >>

(***************************************************************************)
(* Lines 253-277: on rank 0, with log_levels, one row per timer record.    *)
(***************************************************************************)
Row(i) ==
  [ level          |-> i,
    timers         |-> [ s \in Stages |-> all_mg_timers[i][s].first ],
    has_ev         |-> cfg.estimate_eigenvalues,
    min_eigenvalue |-> IF cfg.estimate_eigenvalues THEN min_eigenvalues[i] ELSE NaN,
    max_eigenvalue |-> IF cfg.estimate_eigenvalues THEN max_eigenvalues[i] ELSE NaN ]

\* a variant in which every rank writes the table
Writes_any(log_levels, r) == log_levels

Writes(log_levels, r) == log_levels /\ r = 0

Dump ==
  /\ pc = "dump"
  /\ table' = IF Writes(cfg.log_levels, rank)
                THEN [ k \in 1 .. (max_level - min_level + 1) |-> Row(k - 1) ]
                ELSE table
  /\ pc' = "returned"
  /\ exit' = IF solver_control.last_check = "success"
               THEN "converged" ELSE "failure_at_start"
  /\ UNCHANGED << stage_log, inputs, smoother_data, min_eigenvalues,
                  max_eigenvalues, level, max_ev_logged, touched, mg_coarse,
                  all_mg_timers, connected, now, solver_control, it,
                  applications, vcycles, vc, bottom, open, measured, ub >>

(***************************************************************************)
(* Leaving mg_solve destroys its locals (lines 83-248 declare them on the  *)
(* stack of the call); the caller keeps its SolverControl.                 *)
(***************************************************************************)
Leave ==
  /\ pc \in Terminal
  /\ pc' = "left"
  /\ smoother_data' = << >>
  /\ min_eigenvalues' = << >>
  /\ max_eigenvalues' = << >>
  /\ level' = 0
  /\ max_ev_logged' = NaN
  /\ touched' = {}
  /\ mg_coarse' = "null"
  /\ all_mg_timers' = << >>
  /\ connected' = FALSE
  /\ it' = 0
  /\ applications' = 0
  /\ vcycles' = 0
  /\ vc' = NoVc
  /\ bottom' = {}
  /\ open' = {}
  /\ measured' = << >>
  /\ ub' = FALSE
  /\ table' = << >>
  /\ stage_log' = << >>
  /\ UNCHANGED << inputs, exit, now, solver_control >>

(***************************************************************************)
(* Poisson::run (part_001, lines 484-545), one pass of its loop per        *)
(* refinement cycle, for prm.solver_type = "GMG", whose solve ends in      *)
(* mg_solve.  n_cycles is any number: the loop may end after any cycle.    *)
(* An exception of mg_solve is caught nowhere in solve or run, and a crash *)
(* ends the process: run goes on only after mg_solve has returned.         *)
(***************************************************************************)
\* a discretization change makes a reinit-ed operator one of the past
Outdated(op) == IF op = "constructed" THEN "constructed" ELSE "stale"

\* lines 488-504: initialize_grid() or refine(), then setup_system()
RunCycle ==
  /\ pc \in {"run", "cycle_end"}
  /\ system_operator' = Outdated(system_operator)
  /\ logstream' = << >>
  /\ pc' = "operator_dispatch"
  /\ UNCHANGED << stage_log, cfg, with_trilinos, rank, min_level, max_level, maxsteps,
                  operator_type, exit, smoother_data, min_eigenvalues,
                  max_eigenvalues, level, max_ev_logged, touched, mg_coarse,
                  all_mg_timers, connected, now, solver_control, it,
                  applications, vcycles, vc, bottom, open, measured, ub, table >>

OperatorImplemented(type) == type \in {"MatrixBased", "MatrixFree"}

\* a variant in which only the never reinit-ed operator is built
Rebuilt_once(op) == IF op = "constructed" THEN "reinit" ELSE op

\* reinit(dof_handler, constraints, system_rhs) builds the operator anew
Rebuilt(op) == "reinit"

\* lines 507-511 and 516-520: the operator of the selected type is reinit-ed
\* for the dof_handler and constraints setup_system has just made
Reinit ==
  /\ pc = "operator_dispatch"
  /\ OperatorImplemented(operator_type)
  /\ system_operator' = Rebuilt(system_operator)
  /\ pc' = "solve"
  /\ UNCHANGED << stage_log, cfg, with_trilinos, rank, min_level, max_level, maxsteps,
                  operator_type, logstream, exit, smoother_data,
                  min_eigenvalues, max_eigenvalues, level, max_ev_logged,
                  touched, mg_coarse, all_mg_timers, connected, now,
                  solver_control, it, applications, vcycles, vc, bottom, open,
                  measured, ub, table >>

\* line 526: Assert(false, ...) is compiled out of release builds, the cycle
\* goes on without reinit and without solve
SkipSolve ==
  /\ pc = "operator_dispatch"
  /\ ~OperatorImplemented(operator_type)
  /\ pc' = "cycle_tail"
  /\ UNCHANGED << stage_log, inputs, exit, smoother_data, min_eigenvalues,
                  max_eigenvalues, level, max_ev_logged, touched, mg_coarse,
                  all_mg_timers, connected, now, solver_control, it,
                  applications, vcycles, vc, bottom, open, measured, ub, table >>

\* lines 512-514 and 521-523, Poisson::solve lines 325-368: a SolverControl
\* with the cap, and mg_solve on the hierarchy built for this discretization
NewCall ==
  /\ pc = "solve"
  /\ max_level' \in 0 .. MaxLevel
  /\ min_level' \in 0 .. max_level'
  /\ maxsteps' \in 0 .. MaxSteps
  /\ pc' = "check_smoother"
  /\ exit' = "none"
  /\ solver_control' = [last_step |-> 0, last_check |-> "none"]
  /\ UNCHANGED << stage_log, cfg, with_trilinos, rank, caller, smoother_data,
                  min_eigenvalues, max_eigenvalues, level, max_ev_logged,
                  touched, mg_coarse, all_mg_timers, connected, now, it,
                  applications, vcycles, vc, bottom, open, measured, ub, table >>

\* ways mg_solve ends that take control back to its caller's next statement
Returned == {"converged", "failure_at_start"}

\* Poisson::solve lines 374-382, then run lines 528-534
ReturnToRun ==
  /\ pc = "left"
  /\ exit \in Returned
  /\ pc' = "cycle_tail"
  /\ UNCHANGED << stage_log, inputs, exit, smoother_data, min_eigenvalues,
                  max_eigenvalues, level, max_ev_logged, touched, mg_coarse,
                  all_mg_timers, connected, now, solver_control, it,
                  applications, vcycles, vc, bottom, open, measured, ub, table >>

\* line 536: Utilities::MPI::this_mpi_process(mpi_communicator) == 0
WritesLog(r) == r = 0

\* lines 536-543: the log table goes to filename_log
WriteLog ==
  /\ pc = "cycle_tail"
  /\ logstream' = IF WritesLog(rank)
                    THEN << [iterations |-> solver_control.last_step] >>
                    ELSE logstream
  /\ pc' = "cycle_end"
  /\ UNCHANGED << stage_log, cfg, with_trilinos, rank, min_level, max_level, maxsteps,
                  operator_type, system_operator, exit, smoother_data,
                  min_eigenvalues, max_eigenvalues, level, max_ev_logged,
                  touched, mg_coarse, all_mg_timers, connected, now,
                  solver_control, it, applications, vcycles, vc, bottom, open,
                  measured, ub, table >>

\* line 488: cycle has reached n_cycles
RunEnd ==
  /\ pc = "cycle_end"
  /\ pc' = "run_done"
  /\ UNCHANGED << stage_log, inputs, exit, smoother_data, min_eigenvalues,
                  max_eigenvalues, level, max_ev_logged, touched, mg_coarse,
                  all_mg_timers, connected, now, solver_control, it,
                  applications, vcycles, vc, bottom, open, measured, ub, table >>

\* the statements of Poisson::run around the solve
Run ==
  \/ RunCycle
  \/ Reinit
  \/ SkipSolve
  \/ NewCall
  \/ ReturnToRun
  \/ WriteLog
  \/ RunEnd

Step ==
  \/ CheckSmoother
  \/ InitSmoothers
  \/ EstimateLevel
  \/ LogMaxEV
  \/ SmootherInitialize
  \/ CoarseDispatch
  \/ CreateMG
  \/ SolveStart
  \/ CGIterate
  \/ StageStart
  \/ StageEnd
  \/ StageCrash
  \/ CoarseSolveThrow
  \/ CGCheck
  \/ Dump
  \/ Leave

Next == Step \/ Run

Spec == Init /\ [][Next]_vars

\* calls that get as far as the outer solve: the smoother and the coarse
\* solver are accepted.  What the solve does from line 251 on depends on the
\* hierarchy, the cap and log_levels only, which stay free.
SolvingCall ==
  /\ Init
  /\ cfg.smoother_type = "chebyshev"
  /\ cfg.coarse_type = "cg"
  /\ cfg.estimate_eigenvalues
  /\ with_trilinos
  /\ rank = 0

\* a running call keeps executing: its next statement is eventually taken
FairSpec == SolvingCall /\ [][Next]_vars /\ WF_vars(Step)

(***************************************************************************)
(*                               Properties                                *)
(***************************************************************************)
RecognizedCoarse == {"cg", "cg_with_chebyshev", "cg_with_amg"}

SmootherOps == {"smoother_initialize", "initialize_dof_vector", "estimate_eigenvalues"}

\* the outer solve has made its first status check
OuterStarted == solver_control.last_check # "none"

\* positions of Poisson::run outside mg_solve
RunPositions == {"run", "operator_dispatch", "solve", "cycle_tail", "cycle_end",
                 "run_done"}

\* positions from the first CG iteration to the last status check
OuterRunning == pc \in {"cg_iterate", "vcycle", "cg_check"}

\* C1: with an unrecognized coarse_solver.type mg_solve aborts before any
\* level operator is initialized into a smoother, asked for a vector or used
\* for eigenvalue estimation.
C1_UnknownCoarseAbortsUntouched ==
  ( /\ pc = "thrown"
    /\ exit = "config_error"
    /\ SmootherSupported(cfg.smoother_type)
    /\ cfg.coarse_type \notin RecognizedCoarse )
  => \A u \in touched : u.op \notin SmootherOps

\* C2: with smoother.type other than "chebyshev" the first statement aborts
\* with a configuration error: no level operator is touched, no smoother
\* data is built, nothing is estimated, no iteration and no V-cycle runs.
C2_UnsupportedSmootherAbortsFirst ==
  cfg.smoother_type # "chebyshev" =>
    /\ pc \in {"check_smoother", "thrown", "left"} \cup RunPositions
    /\ exit \in {"none", "config_error"}
    /\ pc \in {"thrown", "left"} => exit = "config_error"
    /\ touched = {}
    /\ smoother_data = << >>
    /\ min_eigenvalues = << >> /\ max_eigenvalues = << >>
    /\ mg_coarse = "null"
    /\ ~OuterStarted /\ it = 0 /\ applications = 0 /\ vcycles = 0

C2_Witness ==
  /\ pc = "thrown"
  /\ exit = "config_error"
  /\ cfg.smoother_type = "jacobi"
  /\ cfg.estimate_eigenvalues
  /\ max_level > min_level

\* C3: a configuration error is raised before the first outer iteration and
\* the first V-cycle, and once the outer solve has started mg_solve ends only
\* by convergence or by an exceeded iteration cap.
C3_ErrorsEarlyThenConvergenceOrCap ==
  /\ exit = "config_error" =>
       ~OuterStarted /\ it = 0 /\ applications = 0 /\ vcycles = 0
  /\ (pc \in Terminal /\ OuterStarted) =>
       exit \in {"converged", "failure_at_start", "no_convergence",
                 "coarse_no_convergence"}

\* C4: cg_with_amg in a build without Trilinos aborts with a configuration
\* error: no coarse solver object is built, no other strategy is used, no
\* V-cycle runs.
C4_AmgWithoutTrilinosAborts ==
  (cfg.coarse_type = "cg_with_amg" /\ ~with_trilinos) =>
    /\ mg_coarse = "null"
    /\ pc \in {"check_smoother", "init_smoothers", "estimate",
                "smoother_initialize", "coarse_dispatch", "thrown", "left"}
                 \cup RunPositions
    /\ exit \in {"none", "config_error"}
    /\ pc \in {"thrown", "left"} => exit = "config_error"
    /\ ~OuterStarted /\ it = 0 /\ applications = 0 /\ vcycles = 0

C4_Witness ==
  /\ pc = "thrown"
  /\ exit = "config_error"
  /\ cfg.coarse_type = "cg_with_amg"
  /\ ~with_trilinos
  /\ SmootherSupported(cfg.smoother_type)
  /\ Uses("smoother_initialize", Levels) \subseteq touched

\* C5: an exceeded iteration cap of the outer or of the coarse solver
\* reaches the caller as a status of the stopping-criterion object
\* (mg_solve returns, last_check is failure), not as an exception.
C5_CapReportedAsStatus ==
  (pc \in Terminal /\ exit \in {"failure_at_start", "no_convergence",
                                 "coarse_no_convergence"}) =>
    /\ pc = "returned"
    /\ solver_control.last_check = "failure"

\* C6: the outer CG solve always terminates; it goes on iterating only
\* while the tolerance is not met and the cap is not reached, and the step
\* the stopping-criterion object reports is the number of iterations
\* (preconditioned by one V-cycle each) consumed, never above the cap.
C6_OuterSolveTerminatesWithinCap ==
  /\ OuterRunning ~> ~OuterRunning
  /\ [](solver_control.last_step <= maxsteps)
  /\ [](pc = "cg_iterate" =>
          solver_control.last_check = "iterate" /\ solver_control.last_step < maxsteps)
  /\ []((pc \in {"dump", "returned"} \/ (pc = "thrown" /\ exit = "no_convergence")) =>
          /\ solver_control.last_check \in {"success", "failure"}
          /\ solver_control.last_step = vcycles
          /\ (solver_control.last_check = "failure" => solver_control.last_step = maxsteps))

C6_Witness ==
  /\ pc = "thrown"
  /\ exit = "no_convergence"
  /\ solver_control.last_step = maxsteps
  /\ vcycles = MaxSteps

\* C7: every preconditioner application runs exactly one V-cycle, a descent
\* from max_level to min_level (where the coarse solver runs) and the ascent
\* back, once per outer iteration: between applications the numbers of
\* V-cycles, of applications and of iterations agree.
C7_OneVcyclePerApplication ==
  /\ pc = "vcycle" =>
       /\ vc.lvl \in Levels
       /\ (vc.stage = COARSE) <=> (vc.lvl = min_level)
  /\ pc \in {"cg_iterate", "cg_check", "dump", "returned"} =>
       /\ vcycles = applications
       /\ applications = it
       /\ vcycles > 0 => bottom = {min_level}

\* C8: with log_levels, a timer start of a stage at a level is followed by
\* its stop before the next start of that stage at that level, and when
\* mg_solve ends, by return or by an exceeded cap, no start is unmatched.
C8_TimerStartsAreStopped ==
  /\ \A o1, o2 \in open :
       (o1.stage = o2.stage /\ o1.level = o2.level) => o1 = o2
  /\ pc \in {"returned", "thrown"} => open = {}

\* all accumulators of the call's timer records are zero
AllZero ==
  \A i \in DOMAIN all_mg_timers : \A s \in Stages : all_mg_timers[i][s].first = 0

\* positions at which the timer records of the call exist
TimersLive == {"solve_start", "cg_iterate", "vcycle", "cg_check", "dump"} \cup Terminal

\* C9: the timer records of a call are max_level - min_level + 1 records of
\* seven accumulators, all zero before the first V-cycle of every call, and
\* within a call no accumulator ever decreases.
C9_AccumulatorsZeroThenMonotone ==
  /\ [](pc = "solve_start" =>
          /\ DOMAIN all_mg_timers = 0 .. (max_level - min_level)
          /\ \A i \in DOMAIN all_mg_timers : DOMAIN all_mg_timers[i] = Stages
          /\ AllZero)
  /\ [](pc \in ({"check_smoother", "left"} \cup RunPositions) => all_mg_timers = << >>)
  /\ [][ (pc \in TimersLive /\ pc' \in TimersLive) =>
           \A i \in DOMAIN all_mg_timers : \A s \in Stages :
             all_mg_timers'[i][s].first >= all_mg_timers[i][s].first ]_vars

\* a second V-cycle runs while an accumulator holds time of the first
C9_Witness ==
  /\ pc = "vcycle"
  /\ vcycles >= 1
  /\ connected
  /\ \E i \in DOMAIN all_mg_timers : \E s \in Stages : all_mg_timers[i][s].first > 0

\* a later call, entered after V-cycles of an earlier call took time, is
\* about to solve with all accumulators zero
C9_FreshCall ==
  /\ pc = "solve_start"
  /\ now > 0
  /\ connected
  /\ AllZero

\* C10: with log_levels the table rank 0 writes has exactly one row per
\* level min_level..max_level, and the row of level L holds the seven times
\* the callbacks measured at level L and, with estimate_eigenvalues, the
\* estimates of level L.
C10_TableRowPerLevel ==
  (pc = "returned" /\ cfg.log_levels /\ rank = 0) =>
    /\ Len(table) = max_level - min_level + 1
    /\ { table[k].level : k \in DOMAIN table } = Levels
    /\ \A k \in DOMAIN table :
         table[k].level \in Levels =>
           /\ \A s \in Stages : table[k].timers[s] = measured[table[k].level][s]
           /\ cfg.estimate_eigenvalues =>
                /\ table[k].min_eigenvalue = min_eigenvalues[table[k].level]
                /\ table[k].max_eigenvalue = max_eigenvalues[table[k].level]

\* levels for which the estimation loop computes estimates
EstimatedLevels == (min_level + 1) .. max_level

\* C11: with estimate_eigenvalues the value logged as max_ev is the largest
\* of the max-eigenvalue estimates of the levels min_level+1..max_level; it
\* is not the sentinel and not read from outside the estimate array.
C11_MaxEvIsMaxOfEstimates ==
  (pc = "smoother_initialize" /\ cfg.estimate_eigenvalues) =>
    /\ ~ub
    /\ ~max_ev_logged.nan
    /\ \E l \in EstimatedLevels : max_ev_logged = max_eigenvalues[l]
    /\ \A l \in EstimatedLevels : ~Less(max_ev_logged, max_eigenvalues[l])

\* C12: the per-level table and the log are written by rank 0 only, the
\* table after the outer solve of the call has ended and the log after
\* mg_solve has returned to run; a process of another rank writes neither.
C12_OnlyRankZeroWritesAfterSolve ==
  /\ table # << >> =>
       /\ rank = 0
       /\ pc = "returned"
       /\ solver_control.last_check \in {"success", "failure"}
  /\ logstream # << >> =>
       /\ rank = 0
       /\ pc \in {"cycle_end", "run_done"}
       /\ OperatorImplemented(operator_type) => exit \in Returned
  /\ rank # 0 => (table = << >> /\ logstream = << >>)

\* rank 0 has written the table of a solve that iterated, and then the log
C12_Witness ==
  /\ rank = 0
  /\ cfg.log_levels
  /\ logstream # << >>
  /\ exit = "converged"
  /\ solver_control.last_step > 0

\* positions whose next statement is a collective step: an eigenvalue
\* estimation, a residual check, a V-cycle stage
AtCollective ==
  \/ pc = "estimate" /\ level <= max_level
  \/ pc \in {"solve_start", "cg_iterate", "vcycle", "cg_check"}

\* C13: processes with the same configuration and hierarchy go through the
\* same collective steps: where a collective step is ahead, no process can
\* leave the sequence on an outcome of its own, and the rank-dependent
\* branches (table dump, log write) perform no collective step and end at
\* the same position for every rank.
C13_CollectivesInLockstep ==
  /\ [](AtCollective => ~ENABLED StageCrash)
  /\ [][ pc = "dump" =>
           /\ pc' = "returned"
           /\ UNCHANGED << level, it, applications, vcycles, vc, touched >> ]_vars
  /\ [][ pc = "cycle_tail" =>
           /\ pc' = "cycle_end"
           /\ UNCHANGED << level, it, applications, vcycles, vc, touched >> ]_vars

\* positions of run at which no solve is under way
BetweenSolves == {"run", "operator_dispatch", "cycle_tail", "cycle_end", "run_done"}

\* C14: in every refinement cycle the operator is reinit-ed after the grid
\* and the system were set up and before the solve; every solve runs on the
\* operator built for the current discretization, and the operator does not
\* change from its reinit to the end of the solve.
C14_OperatorRebuiltBeforeSolve ==
  /\ [](pc \notin BetweenSolves => system_operator = "reinit")
  /\ [][ (pc = "operator_dispatch" /\ OperatorImplemented(operator_type)) =>
           (system_operator' = "reinit" /\ pc' = "solve") ]_vars
  /\ [][ pc \notin BetweenSolves => system_operator' = system_operator ]_vars

\* the solve of a later cycle, after a refinement made the operator of the
\* cycle before a stale one
C14_Witness ==
  /\ pc = "cg_iterate"
  /\ now > 0
  /\ system_operator = "reinit"

\* levels above the coarsest level of the hierarchy
NonCoarsest == (min_level + 1) .. max_level

\* the stages of a non-coarsest level, in the order of the claim
LevelStages == << PRE, RESIDUAL, RESTRICTION, PROLONGATION, EDGE_PROLONGATION, POST >>

\* the stage the claim puts directly before stage st at the same level
Before(st) ==
  CASE st = RESIDUAL          -> PRE
    [] st = RESTRICTION       -> RESIDUAL
    [] st = EDGE_PROLONGATION -> PROLONGATION
    [] OTHER                  -> EDGE_PROLONGATION

C16_CoarseSolveOnceAtMinLevel ==
  /\ \A i \in DOMAIN stage_log :
       /\ stage_log[i].level \in Levels
       /\ (stage_log[i].stage = COARSE) <=> (stage_log[i].level = min_level)
  /\ pc = "cg_check" =>
       Cardinality({ i \in DOMAIN stage_log : stage_log[i].stage = COARSE }) = 1
  /\ \A u \in touched : u.op = "coarse_matrix" => u.level = min_level

\* the eigenvalue estimations made so far in this call
Estimations == { u \in touched : u.op = "estimate_eigenvalues" }

\* the call is past the estimation block of lines 102-125
PastEstimation ==
  \/ pc \in {"smoother_initialize", "coarse_dispatch", "create_mg", "solve_start",
             "cg_iterate", "vcycle", "cg_check", "dump", "returned", "crashed"}
  \/ pc = "thrown" /\ SmootherSupported(cfg.smoother_type)

C18_SmootherDataAfterEstimation ==
  smoother_data # << >> =>
    \A l \in Levels :
      IF [op |-> "estimate_eigenvalues", level |-> l] \in touched
        THEN /\ smoother_data[l].eig_cg_n_iterations = 0
             /\ ~smoother_data[l].max_eigenvalue.nan
             /\ ~max_eigenvalues[l].nan
             /\ 10 * smoother_data[l].max_eigenvalue.v = 11 * max_eigenvalues[l].v
        ELSE /\ smoother_data[l].eig_cg_n_iterations = cfg.eig_cg_n_iterations
             /\ smoother_data[l].max_eigenvalue = Num(DefaultMaxEigenvalue)

\* V-cycles run with an estimated level above a level that was not estimated
C18_Witness ==
  /\ pc = "vcycle"
  /\ Estimations # {}
  /\ \E l \in Levels : [op |-> "estimate_eigenvalues", level |-> l] \notin touched

\* a bound no Chebyshev smoother can be configured from
InvalidBound(x) == x.nan \/ x.v <= 0

\* the levels whose estimation gave an invalid maximum eigenvalue
InvalidEstimates ==
  { u \in Estimations : InvalidBound(max_eigenvalues[u.level]) }

\* C19: after an estimation that gave a non-positive or NaN bound mg_solve
\* does not go on to the solve: no outer iteration and no V-cycle runs with
\* the smoother of that level, the call ends with an error.
C19_InvalidEstimateSurfaced ==
  InvalidEstimates # {} =>
    /\ pc \in {"estimate", "thrown", "left"}
    /\ ~OuterStarted /\ it = 0 /\ applications = 0 /\ vcycles = 0

\* positions at which the estimate vectors of a call do not exist
BeforeOrAfterCall == {"check_smoother", "init_smoothers", "left"} \cup RunPositions

C21_CallbackIndexesExistingRecord ==
  (pc = "vcycle" /\ connected /\ vc.lvl \in Levels) =>
    /\ DOMAIN all_mg_timers = 0 .. (max_level - min_level)
    /\ TimerIndex(vc.lvl) \in DOMAIN all_mg_timers
    /\ Row(TimerIndex(vc.lvl)).level = vc.lvl

\* an out-of-range access that the solve makes with or without callbacks
SolveOutOfRange == vc.running /\ WorkOutOfRange(vc.stage, vc.lvl)

\* C22: without log_levels no callback is connected, no accumulator changes
\* and no table is written; and the callbacks keep to the timer records, so
\* that whatever the V-cycle does with them connected (its stages, an
\* out-of-range access, its end) it does without them too.
C22_InstrumentationIsTransparent ==
  /\ [](~cfg.log_levels => (~connected /\ table = << >> /\ AllZero))
  /\ [][ (~cfg.log_levels /\ pc \in TimersLive /\ pc' \in TimersLive) =>
           all_mg_timers' = all_mg_timers ]_vars
  /\ []((pc = "vcycle" /\ ENABLED StageCrash) => SolveOutOfRange)
  /\ [][ (pc = "vcycle" /\ ub' /\ ~ub) => SolveOutOfRange ]_vars
  /\ [][ (pc = "vcycle" /\ pc' = "vcycle" /\ vc.running /\ ~vc'.running) =>
           vc' = NextVc(vc) ]_vars

====
